---- MODULE Spec2Model ----
(***************************************************************************)
(* Model of lib/utapi/utilities.js: the `listMetrics` command line client  *)
(* (option validation, request construction, response handling) and the    *)
(* `pushMetric` adapter.                                                   *)
(*                                                                         *)
(* JavaScript strings are sequences of one-character strings.  The value   *)
(* `undefined` of an option is the sequence Undefined, whose only element  *)
(* is not a character, so that it differs from every string.               *)
(***************************************************************************)
EXTENDS Integers, Sequences, FiniteSets, TLC

VARIABLES
    metricType,   \* argument of listMetrics: BUCKETS (legacy binary) or Undefined
    commander,    \* the option fields of the commander object after parse()
    server,       \* what the utapi server answers: [statusCode, chunks]
    pc,           \* "start" | "sent" | "receiving" | "exited"
    listCalls,    \* arguments of every call of _listMetrics
    requests,     \* every request made with transport.request, with the calls on it
    response,     \* the response object seen by the callback: [statusCode, encoding, body, nread]
    stdout,       \* strings written with process.stdout.write / outputHelp
    logs,         \* entries given to logger.info / logger.error
    exit,         \* "running" | "exit0" | "exit1" | "uncaught"
    pushCalls,    \* number of calls of pushMetric
    utapiCalls,   \* number of calls of utapi.pushMetric
    lastPush,     \* arguments of the last call of utapi.pushMetric
    pushIn,       \* arguments of the last call of pushMetric
    pushReturn,   \* what the last call of pushMetric returned
    utapiResult   \* what the last call of utapi.pushMetric returned

lmVars == <<metricType, commander, server, pc, listCalls, requests, response,
            stdout, logs, exit>>
pushVars == <<pushCalls, utapiCalls, lastPush, pushIn, pushReturn, utapiResult>>
vars == <<metricType, commander, server, pc, listCalls, requests, response,
          stdout, logs, exit, pushCalls, utapiCalls, lastPush, pushIn, pushReturn, utapiResult>>

---------------------------------------------------------------------------
(* Bounds of the inputs.                                                   *)

\* longest generated value of --buckets / --accounts
MaxResLen == 2
\* longest generated value of --start / --end
MaxNumLen == 2
\* most chunks of a generated response body
MaxChunks == 3
\* most calls of pushMetric in one run
MaxPushCalls == 2

---------------------------------------------------------------------------
(* Strings.                                                                *)

Undefined == <<"undefined">>

BUCKETS == <<"b","u","c","k","e","t","s">>
ACCOUNTS == <<"a","c","c","o","u","n","t","s">>
TIMERANGE == <<"t","i","m","e","R","a","n","g","e">>
LIST_METRICS == <<"L","i","s","t","M","e","t","r","i","c","s">>
LIST_RECENT_METRICS ==
    <<"L","i","s","t","R","e","c","e","n","t","M","e","t","r","i","c","s">>
ACTION_EQ == <<"?","A","c","t","i","o","n","=">>
NULL_TEXT == <<"n","u","l","l">>
TRUE_TEXT == <<"t","r","u","e">>
FALSE_TEXT == <<"f","a","l","s","e">>
NEWLINE == <<"\n">>
\* what commander.outputHelp() writes
HELP_TEXT == <<"<usage>">>

Digits == <<"0","1","2","3","4","5","6","7","8","9">>
IsDigit(c) == \E d \in 1..10 : Digits[d] = c
DigitVal(c) == (CHOOSE d \in 1..10 : Digits[d] = c) - 1
IsSpace(c) == c \in {" ", "\t", "\n", "\r"}

\* JavaScript truthiness of an option value (a string or undefined)
Truthy(v) == v # Undefined /\ v # <<>>

RECURSIVE SeqsUpTo(_, _)
\* all strings over `alphabet` of length at most n
SeqsUpTo(alphabet, n) ==
    IF n = 0 THEN {<<>>}
    ELSE LET shorter == SeqsUpTo(alphabet, n - 1)
         IN shorter \cup {Append(s, c) : s \in shorter, c \in alphabet}

RECURSIVE Join(_, _)
\* Array.prototype.join
Join(list, sep) ==
    IF list = <<>> THEN <<>>
    ELSE IF Len(list) = 1 THEN list[1]
    ELSE list[1] \o sep \o Join(Tail(list), sep)

RECURSIVE SplitFrom(_, _, _)
SplitFrom(s, sep, cur) ==
    IF s = <<>> THEN <<cur>>
    ELSE IF Head(s) = sep THEN <<cur>> \o SplitFrom(Tail(s), sep, <<>>)
    ELSE SplitFrom(Tail(s), sep, Append(cur, Head(s)))

\* a mutant of Split: empty segments are dropped
SplitDropEmpty(s, sep) ==
    SelectSeq(SplitFrom(s, sep, <<>>), LAMBDA seg : seg # <<>>)

\* String.prototype.split with a one-character separator
Split(s, sep) == SplitFrom(s, sep, <<>>)

---------------------------------------------------------------------------
(* Number.parseInt(string, 10) and the decimal form of an integer.         *)

RECURSIVE SkipSpace(_)
SkipSpace(s) == IF s # <<>> /\ IsSpace(Head(s)) THEN SkipSpace(Tail(s)) ELSE s

RECURSIVE DigitPrefix(_)
DigitPrefix(s) ==
    IF s # <<>> /\ IsDigit(Head(s)) THEN <<Head(s)>> \o DigitPrefix(Tail(s))
    ELSE <<>>

RECURSIVE DecimalValue(_)
DecimalValue(ds) ==
    IF ds = <<>> THEN 0
    ELSE DecimalValue(SubSeq(ds, 1, Len(ds) - 1)) * 10 + DigitVal(ds[Len(ds)])

\* Number.parseInt(s, 10): [nan, val]
ParseInt(s) ==
    LET t == SkipSpace(s)
        neg == t # <<>> /\ Head(t) = "-"
        u == IF t # <<>> /\ Head(t) \in {"-", "+"} THEN Tail(t) ELSE t
        ds == DigitPrefix(u)
    IN IF ds = <<>> THEN [nan |-> TRUE, val |-> 0]
       ELSE [nan |-> FALSE,
             val |-> IF neg THEN 0 - DecimalValue(ds) ELSE DecimalValue(ds)]

\* `!n` for the result of parseInt: NaN and 0 are falsy
Falsy(n) == n.nan \/ n.val = 0

RECURSIVE NatToStr(_)
NatToStr(n) ==
    IF n < 10 THEN <<Digits[n + 1]>>
    ELSE NatToStr(n \div 10) \o <<Digits[(n % 10) + 1]>>

\* the decimal form JSON.stringify gives an integer
IntToStr(n) == IF n < 0 THEN <<"-">> \o NatToStr(0 - n) ELSE NatToStr(n)

---------------------------------------------------------------------------
(* JSON values: [type, val] with type "null", "boolean", "number",        *)
(* "string", "array" (val: a sequence of values) or "object" (val: a       *)
(* sequence of [key, value] in insertion order).  Numbers are integers.    *)

JNull == [type |-> "null", val |-> <<>>]
JBool(b) == [type |-> "boolean", val |-> b]
JNum(n) == [type |-> "number", val |-> n]
JStr(s) == [type |-> "string", val |-> s]
JArr(list) == [type |-> "array", val |-> list]
JObj(members) == [type |-> "object", val |-> members]

RECURSIVE Escape(_)
Escape(s) ==
    IF s = <<>> THEN <<>>
    ELSE (CASE Head(s) = "\"" -> <<"\\", "\"">>
            [] Head(s) = "\\" -> <<"\\", "\\">>
            [] Head(s) = "\n" -> <<"\\", "n">>
            [] OTHER -> <<Head(s)>>) \o Escape(Tail(s))

\* QuoteJSONString
Quote(s) == <<"\"">> \o Escape(s) \o <<"\"">>

RECURSIVE Serialize(_, _, _)
\* SerializeJSONProperty with the current indentation `ind` and the gap `gap`
Serialize(v, ind, gap) ==
    LET inner == ind \o gap
        open(b) == IF gap = <<>> THEN <<b>> ELSE <<b, "\n">> \o inner
        sep == IF gap = <<>> THEN <<",">> ELSE <<",", "\n">> \o inner
        close(b) == IF gap = <<>> THEN <<b>> ELSE <<"\n">> \o ind \o <<b>>
        colon == IF gap = <<>> THEN <<":">> ELSE <<":", " ">>
    IN CASE v.type = "null" -> NULL_TEXT
         [] v.type = "boolean" -> (IF v.val THEN TRUE_TEXT ELSE FALSE_TEXT)
         [] v.type = "number" -> IntToStr(v.val)
         [] v.type = "string" -> Quote(v.val)
         [] v.type = "array" ->
              IF v.val = <<>> THEN <<"[", "]">>
              ELSE open("[")
                   \o Join([i \in 1..Len(v.val) |-> Serialize(v.val[i], inner, gap)], sep)
                   \o close("]")
         [] v.type = "object" ->
              IF v.val = <<>> THEN <<"{", "}">>
              ELSE open("{")
                   \o Join([i \in 1..Len(v.val) |->
                              Quote(v.val[i].key) \o colon
                              \o Serialize(v.val[i].value, inner, gap)], sep)
                   \o close("}")

\* JSON.stringify(v, null, space): the gap is `space` spaces
JSONStringify(v, space) == Serialize(v, <<>>, [i \in 1..space |-> " "])

\* the result of a parsing step: the value read and the text after it
ParseOk(v, rest) == [ok |-> TRUE, val |-> v, rest |-> rest]
ParseFail == [ok |-> FALSE, val |-> JNull, rest |-> <<>>]

StartsWith(s, prefix) ==
    Len(s) >= Len(prefix) /\ SubSeq(s, 1, Len(prefix)) = prefix
Drop(s, n) == SubSeq(s, n + 1, Len(s))

RECURSIVE ParseStringBody(_, _)
\* the characters of a string literal after its opening quote
ParseStringBody(s, acc) ==
    IF s = <<>> THEN ParseFail
    ELSE IF Head(s) = "\"" THEN ParseOk(JStr(acc), Tail(s))
    ELSE IF Head(s) = "\n" THEN ParseFail
    ELSE IF Head(s) = "\\" THEN
        IF Len(s) < 2 THEN ParseFail
        ELSE IF s[2] \in {"\"", "\\", "/"}
             THEN ParseStringBody(Drop(s, 2), Append(acc, s[2]))
        ELSE IF s[2] = "n" THEN ParseStringBody(Drop(s, 2), Append(acc, "\n"))
        ELSE ParseFail
    ELSE ParseStringBody(Tail(s), Append(acc, Head(s)))

\* an integer literal: -? (0 | [1-9][0-9]*)
ParseNumber(s) ==
    LET neg == s # <<>> /\ Head(s) = "-"
        u == IF neg THEN Tail(s) ELSE s
        ds == DigitPrefix(u)
    IN IF ds = <<>> THEN ParseFail
       ELSE IF ds[1] = "0"
            THEN ParseOk(JNum(0), Tail(u))
       ELSE ParseOk(JNum(IF neg THEN 0 - DecimalValue(ds) ELSE DecimalValue(ds)),
                    Drop(u, Len(ds)))

RECURSIVE ParseValue(_)
RECURSIVE ParseElements(_, _)
RECURSIVE ParseMembers(_, _)

\* the elements of an array after "[" or ","
ParseElements(s, acc) ==
    LET e == ParseValue(s)
        t == SkipSpace(e.rest)
    IN IF ~e.ok \/ t = <<>> THEN ParseFail
       ELSE IF Head(t) = "]" THEN ParseOk(JArr(Append(acc, e.val)), Tail(t))
       ELSE IF Head(t) = "," THEN ParseElements(Tail(t), Append(acc, e.val))
       ELSE ParseFail

\* the members of an object after "{" or ","
ParseMembers(s, acc) ==
    LET t == SkipSpace(s)
        k == IF t # <<>> /\ Head(t) = "\"" THEN ParseStringBody(Tail(t), <<>>)
             ELSE ParseFail
        c == SkipSpace(k.rest)
        e == IF k.ok /\ c # <<>> /\ Head(c) = ":" THEN ParseValue(Tail(c))
             ELSE ParseFail
        u == SkipSpace(e.rest)
        member == [key |-> k.val.val, value |-> e.val]
    IN IF ~e.ok \/ u = <<>> THEN ParseFail
       ELSE IF Head(u) = "}" THEN ParseOk(JObj(Append(acc, member)), Tail(u))
       ELSE IF Head(u) = "," THEN ParseMembers(Tail(u), Append(acc, member))
       ELSE ParseFail

\* one JSON value, after optional white space
ParseValue(s) ==
    LET t == SkipSpace(s)
    IN IF t = <<>> THEN ParseFail
       ELSE IF StartsWith(t, NULL_TEXT) THEN ParseOk(JNull, Drop(t, 4))
       ELSE IF StartsWith(t, TRUE_TEXT) THEN ParseOk(JBool(TRUE), Drop(t, 4))
       ELSE IF StartsWith(t, FALSE_TEXT) THEN ParseOk(JBool(FALSE), Drop(t, 5))
       ELSE IF Head(t) = "\"" THEN ParseStringBody(Tail(t), <<>>)
       ELSE IF Head(t) = "-" \/ IsDigit(Head(t)) THEN ParseNumber(t)
       ELSE IF Head(t) = "[" THEN
            (IF SkipSpace(Tail(t)) # <<>> /\ Head(SkipSpace(Tail(t))) = "]"
             THEN ParseOk(JArr(<<>>), Tail(SkipSpace(Tail(t))))
             ELSE ParseElements(Tail(t), <<>>))
       ELSE IF Head(t) = "{" THEN
            (IF SkipSpace(Tail(t)) # <<>> /\ Head(SkipSpace(Tail(t))) = "}"
             THEN ParseOk(JObj(<<>>), Tail(SkipSpace(Tail(t))))
             ELSE ParseMembers(Tail(t), <<>>))
       ELSE ParseFail

\* JSON.parse(text): [ok, val]; ok = FALSE stands for the SyntaxError thrown
JSONParse(text) ==
    LET r == ParseValue(text)
    IN IF r.ok /\ SkipSpace(r.rest) = <<>> THEN [ok |-> TRUE, val |-> r.val]
       ELSE [ok |-> FALSE, val |-> JNull]

---------------------------------------------------------------------------
(* listMetrics: option validation.                                         *)

\* the metric listed: 'buckets' for the legacy binary, else --metric
Metric == IF metricType = BUCKETS THEN BUCKETS ELSE commander.metric

\* the name of the option that holds the resources of metric m
MetricName(m) == IF m = BUCKETS THEN "buckets" ELSE "accounts"

\* commander[metric]
ResourceOption(m) == IF m = BUCKETS THEN commander.buckets ELSE commander.accounts

\* a mutant of MetricIsValid: only the presence of --metric is checked
MetricIsPresent == metricType = BUCKETS \/ Truthy(commander.metric)

\* the check of --metric, made unless listMetrics was called with 'buckets'
MetricIsValid ==
    metricType = BUCKETS \/ commander.metric = BUCKETS \/ commander.metric = ACCOUNTS

\* a mutant of RequiredOptions: the secret key is not required
RequiredOptionsNoSecret ==
    << [name |-> "host", value |-> commander.host],
       [name |-> "port", value |-> commander.port],
       [name |-> "accessKey", value |-> commander.accessKey] >>
    \o (IF metricType # BUCKETS
        THEN << [name |-> "metric", value |-> commander.metric] >> ELSE << >>)
    \o << [name |-> MetricName(Metric), value |-> ResourceOption(Metric)] >>
    \o (IF ~commander.recent
        THEN << [name |-> "start", value |-> commander.start] >> ELSE << >>)

\* the keys and values of requiredOptions, in insertion order
RequiredOptions ==
    << [name |-> "host", value |-> commander.host],
       [name |-> "port", value |-> commander.port],
       [name |-> "accessKey", value |-> commander.accessKey],
       [name |-> "secretKey", value |-> commander.secretKey] >>
    \o (IF metricType # BUCKETS
        THEN << [name |-> "metric", value |-> commander.metric] >> ELSE << >>)
    \o << [name |-> MetricName(Metric), value |-> ResourceOption(Metric)] >>
    \o (IF ~commander.recent
        THEN << [name |-> "start", value |-> commander.start] >> ELSE << >>)

\* the positions of the required options that are undefined or empty
MissingOptions ==
    {i \in 1..Len(RequiredOptions) : ~Truthy(RequiredOptions[i].value)}

\* the first required option that is missing: process.exit ends the forEach there
FirstMissing ==
    RequiredOptions[CHOOSE i \in MissingOptions : \A j \in MissingOptions : i <= j].name

\* `if (end)`: an --end value was given and is not empty
EndGiven == Truthy(commander.end)

\* a mutant of TimeRange: the end of the range is left out
TimeRangeStartOnly ==
    IF commander.recent THEN << >> ELSE << ParseInt(commander.start).val >>

\* the timeRange array built once start and end have been checked
TimeRange ==
    IF commander.recent THEN << >>
    ELSE IF EndGiven
         THEN << ParseInt(commander.start).val, ParseInt(commander.end).val >>
    ELSE << ParseInt(commander.start).val >>

\* the message of the first failed check of listMetrics, "" when all pass
ValidationError ==
    IF ~MetricIsValid THEN "metric must be buckets or accounts"
    ELSE IF MissingOptions # {} THEN "missing required option: "
    ELSE IF ~commander.recent /\ Falsy(ParseInt(commander.start))
         THEN "start must be a number"
    ELSE IF ~commander.recent /\ EndGiven /\ Falsy(ParseInt(commander.end))
         THEN "end must be a number"
    ELSE ""

\* the entry logged for a failed check
ValidationLog(message) ==
    [level |-> "error", message |-> message,
     data |-> IF message = "missing required option: " THEN FirstMissing ELSE ""]

---------------------------------------------------------------------------
(* _listMetrics: the request.                                              *)

\* listAction
ListAction(recent) == IF recent THEN LIST_RECENT_METRICS ELSE LIST_METRICS

\* the options given to transport.request
RequestOptions(host, port, metric, recent) ==
    [host |-> host, port |-> port, method |-> "POST",
     path |-> <<"/">> \o metric \o ACTION_EQ \o ListAction(recent),
     headers |-> << [name |-> "content-type", value |-> "application/json"],
                    [name |-> "cache-control", value |-> "no-cache"] >>,
     rejectUnauthorized |-> FALSE]

\* a call made on the request object
RequestCall(op, data, accessKey, secretKey, service) ==
    [op |-> op, data |-> data, accessKey |-> accessKey, secretKey |-> secretKey,
     service |-> service]

\* auth.client.generateV4Headers(request, '', accessKey, secretKey, 's3')
GenerateV4Headers(accessKey, secretKey) ==
    RequestCall("generateV4Headers", <<>>, accessKey, secretKey, "s3")

\* a mutant of RequestObject: the keys in the other order
RequestObjectMetricFirst(metric, resources, timeRange, recent) ==
    JObj(<< [key |-> metric,
             value |-> JArr([i \in 1..Len(resources) |-> JStr(resources[i])])] >>
         \o (IF recent THEN << >>
             ELSE << [key |-> TIMERANGE,
                      value |-> JArr([i \in 1..Len(timeRange) |-> JNum(timeRange[i])])] >>))

\* a mutant of RequestObject: timeRange is sent for recent listings too
RequestObjectAlwaysRange(metric, resources, timeRange, recent) ==
    JObj(<< [key |-> TIMERANGE,
             value |-> JArr([i \in 1..Len(timeRange) |-> JNum(timeRange[i])])],
            [key |-> metric,
             value |-> JArr([i \in 1..Len(resources) |-> JStr(resources[i])])] >>)

\* requestObj: `recent ? {} : { timeRange }`, then requestObj[metric] = metricType
RequestObject(metric, resources, timeRange, recent) ==
    JObj((IF recent THEN << >>
          ELSE << [key |-> TIMERANGE,
                   value |-> JArr([i \in 1..Len(timeRange) |-> JNum(timeRange[i])])] >>)
         \o << [key |-> metric,
                value |-> JArr([i \in 1..Len(resources) |-> JStr(resources[i])])] >>)

\* the arguments listMetrics gives _listMetrics
ListMetricsArgs ==
    [host |-> commander.host, port |-> commander.port, metric |-> Metric,
     metricType |-> Split(ResourceOption(Metric), ","), timeRange |-> TimeRange,
     accessKey |-> commander.accessKey, secretKey |-> commander.secretKey,
     verbose |-> commander.verbose, recent |-> commander.recent,
     ssl |-> commander.ssl]

\* a mutant of NewRequest: the body is written before the request is signed
NewRequestWriteFirst(a) ==
    [transport |-> IF a.ssl THEN "https" ELSE "http",
     options |-> RequestOptions(a.host, a.port, a.metric, a.recent),
     calls |-> << RequestCall("write",
                      JSONStringify(RequestObject(a.metric, a.metricType,
                                                  a.timeRange, a.recent), 0),
                      Undefined, Undefined, ""),
                  GenerateV4Headers(a.accessKey, a.secretKey),
                  RequestCall("end", <<>>, Undefined, Undefined, "") >>]

\* the request _listMetrics makes, with the calls made on it in order
NewRequest(a) ==
    [transport |-> IF a.ssl THEN "https" ELSE "http",
     options |-> RequestOptions(a.host, a.port, a.metric, a.recent),
     calls |-> << GenerateV4Headers(a.accessKey, a.secretKey),
                  RequestCall("write",
                      JSONStringify(RequestObject(a.metric, a.metricType,
                                                  a.timeRange, a.recent), 0),
                      Undefined, Undefined, ""),
                  RequestCall("end", <<>>, Undefined, Undefined, "") >>]

---------------------------------------------------------------------------
(* The steps of a run of the listMetrics binary.                           *)

NoResponse ==
    [statusCode |-> 0, encoding |-> "", body |-> << >>, nread |-> 0, ended |-> FALSE]

\* the exit code of the process: an uncaught exception ends node with code 1
ExitCode == CASE exit = "exit0" -> 0
              [] exit = "exit1" -> 1
              [] exit = "uncaught" -> 1
              [] OTHER -> -1

\* listMetrics(metricType), from commander.parse to request.end()
ListMetrics ==
    /\ pc = "start"
    /\ IF ValidationError # ""
       THEN /\ logs' = Append(logs, ValidationLog(ValidationError))
            /\ stdout' = Append(stdout, HELP_TEXT)
            /\ exit' = "exit1"
            /\ pc' = "exited"
            /\ UNCHANGED <<listCalls, requests>>
       ELSE /\ listCalls' = Append(listCalls, ListMetricsArgs)
            /\ requests' = Append(requests, NewRequest(ListMetricsArgs))
            /\ logs' = IF ListMetricsArgs.verbose
                       THEN Append(logs, [level |-> "info", message |-> "request headers",
                                          data |-> "request._headers"])
                       ELSE logs
            /\ pc' = "sent"
            /\ UNCHANGED <<stdout, exit>>
    /\ UNCHANGED <<metricType, commander, server, response>>
    /\ UNCHANGED pushVars

\* the callback of transport.request: the response has arrived
OnResponse ==
    /\ pc = "sent"
    /\ response' = [statusCode |-> server.statusCode, encoding |-> "utf8",
                    body |-> << >>, nread |-> 0, ended |-> FALSE]
    /\ logs' = IF listCalls[1].verbose
               THEN logs \o << [level |-> "info", message |-> "response status code",
                                data |-> server.statusCode],
                               [level |-> "info", message |-> "response headers",
                                data |-> "response.headers"] >>
               ELSE logs
    /\ pc' = "receiving"
    /\ UNCHANGED <<metricType, commander, server, listCalls, requests, stdout, exit>>
    /\ UNCHANGED pushVars

\* response.on('data'): the next chunk of the body is pushed
OnData ==
    /\ pc = "receiving"
    /\ response.nread < Len(server.chunks)
    /\ response' = [response EXCEPT !.body = Append(@, server.chunks[response.nread + 1]),
                                    !.nread = @ + 1]
    /\ UNCHANGED <<metricType, commander, server, pc, listCalls, requests, stdout,
                   logs, exit>>
    /\ UNCHANGED pushVars

\* a mutant of IsSuccess: only 200 is a success
IsSuccessOnly200(statusCode) == statusCode = 200

\* response.statusCode >= 200 && response.statusCode < 300
IsSuccess(statusCode) == statusCode >= 200 /\ statusCode < 300

\* response.on('end'): the body is parsed and the process exits
OnEnd ==
    /\ pc = "receiving"
    /\ response.nread = Len(server.chunks)
    /\ LET responseBody == JSONParse(Join(response.body, << >>))
       IN IF ~responseBody.ok
          THEN /\ exit' = "uncaught"
               /\ UNCHANGED <<stdout, logs, requests>>
          ELSE IF IsSuccess(response.statusCode)
          THEN /\ stdout' = stdout \o << JSONStringify(responseBody.val, 2), NEWLINE >>
               /\ exit' = "exit0"
               /\ UNCHANGED <<logs, requests>>
          ELSE /\ logs' = Append(logs, [level |-> "error",
                                        message |-> "request failed with HTTP Status ",
                                        data |-> [statusCode |-> response.statusCode,
                                                  body |-> responseBody.val]])
               /\ exit' = "exit1"
               /\ UNCHANGED <<stdout, requests>>
    /\ response' = [response EXCEPT !.ended = TRUE]
    /\ pc' = "exited"
    /\ UNCHANGED <<metricType, commander, server, listCalls>>
    /\ UNCHANGED pushVars

Next == ListMetrics \/ OnResponse \/ OnData \/ OnEnd

---------------------------------------------------------------------------
(* pushMetric.  A value of metricObj is [t, v]: t is "undefined", "null",  *)
(* "string", "number" or "object"; an absent field reads as undefined.     *)

SUndef == [t |-> "undefined", v |-> ""]
NUndef == [t |-> "undefined", v |-> 0]

\* a mutant of PushPayload: an absent size becomes 0
PushPayloadDefaultZero(metricObj) ==
    [bucket |-> metricObj.bucket,
     accountId |-> IF metricObj.authInfo.t = "object"
                   THEN [t |-> "string", v |-> metricObj.authInfo.v] ELSE SUndef,
     byteLength |-> IF metricObj.byteLength.t = "undefined"
                    THEN [t |-> "number", v |-> 0] ELSE metricObj.byteLength,
     newByteLength |-> metricObj.newByteLength,
     oldByteLength |-> metricObj.oldByteLength,
     numberOfObjects |-> metricObj.numberOfObjects]

\* the third argument pushMetric gives utapi.pushMetric
PushPayload(metricObj) ==
    [bucket |-> metricObj.bucket,
     accountId |-> IF metricObj.authInfo.t = "object"
                   THEN [t |-> "string", v |-> metricObj.authInfo.v] ELSE SUndef,
     byteLength |-> metricObj.byteLength,
     newByteLength |-> metricObj.newByteLength,
     oldByteLength |-> metricObj.oldByteLength,
     numberOfObjects |-> metricObj.numberOfObjects]

\* pushMetric(action, log, metricObj), utapi.pushMetric returning `result`
PushMetric(action, uids, metricObj, result) ==
    /\ pushCalls < MaxPushCalls
    /\ pushCalls' = pushCalls + 1
    /\ pushIn' = [action |-> action, uids |-> uids, metricObj |-> metricObj]
    /\ utapiCalls' = utapiCalls + 1
    /\ lastPush' = [action |-> action, reqUids |-> uids,
                    params |-> PushPayload(metricObj)]
    /\ utapiResult' = result
    /\ pushReturn' = result
    /\ UNCHANGED lmVars

---------------------------------------------------------------------------
(* Inputs: the options commander holds after parse(), and the server.      *)

HOST == <<"h">>
PORT == <<"8","1">>
ACCESS_KEY == <<"A","K">>
SECRET_KEY == <<"S","K">>
\* the resources and the time range of the request example
B1_B2 == <<"b","1",",","b","2">>
T100 == <<"1","0","0">>
T200 == <<"2","0","0">>
ACCESS_DENIED ==
    <<"{","\"","e","r","r","o","r","\"",":",
      "\"","A","c","c","e","s","s","D","e","n","i","e","d","\"","}">>

\* values of --buckets / --accounts
ResVals == SeqsUpTo({"a", ","}, MaxResLen) \cup {Undefined, B1_B2}
\* values of --start
StartVals == SeqsUpTo({"1", "-"}, MaxNumLen) \cup {Undefined, <<"0">>, T100}
\* values of --end
EndVals == SeqsUpTo({"0", "1"}, MaxNumLen) \cup {Undefined, T200}
\* pieces of a response body
ChunkVals == { <<"[">>, <<"]">>, <<"1">>, <<",">>, NULL_TEXT, ACCESS_DENIED }
StatusCodes == {199, 200, 204, 299, 300, 403}
Responses == [statusCode : StatusCodes, chunks : SeqsUpTo(ChunkVals, MaxChunks)]

\* the option combinations the two binaries define: the legacy one has no
\* --metric and no --accounts option
OptionsOf(mt, metric, accounts) ==
    mt = Undefined \/ (metric = Undefined /\ accounts = Undefined)

\* the option fields of the commander object
MakeCommander(host, port, accessKey, secretKey, metric, buckets, accounts, start, end, verbose, recent, ssl) ==
    [host |-> host, port |-> port, accessKey |-> accessKey, secretKey |-> secretKey,
     metric |-> metric, buckets |-> buckets, accounts |-> accounts,
     start |-> start, end |-> end, verbose |-> verbose, recent |-> recent,
     ssl |-> ssl]

InitRun ==
    /\ pc = "start"
    /\ listCalls = << >>
    /\ requests = << >>
    /\ response = NoResponse
    /\ stdout = << >>
    /\ logs = << >>
    /\ exit = "running"

InitPushVars ==
    /\ pushCalls = 0
    /\ utapiCalls = 0
    /\ lastPush = [action |-> "", reqUids |-> "", params |-> PushPayload(
           [authInfo |-> SUndef, bucket |-> SUndef, byteLength |-> NUndef,
            newByteLength |-> NUndef, oldByteLength |-> NUndef,
            numberOfObjects |-> NUndef])]
    /\ pushIn = [action |-> "", uids |-> "", metricObj |->
           [authInfo |-> SUndef, bucket |-> SUndef, byteLength |-> NUndef,
            newByteLength |-> NUndef, oldByteLength |-> NUndef,
            numberOfObjects |-> NUndef]]
    /\ pushReturn = ""
    /\ utapiResult = ""

\* combinations of present, empty and absent options, one server answer
InitArgs ==
    /\ metricType \in {BUCKETS, Undefined}
    /\ \E host \in {Undefined, << >>, HOST}, port \in {Undefined, PORT},
          accessKey \in {<< >>, ACCESS_KEY},
          secretKey \in {Undefined, << >>, SECRET_KEY},
          metric \in {Undefined, BUCKETS, ACCOUNTS, <<"b">>},
          buckets \in {Undefined, << >>, <<"a">>},
          accounts \in {Undefined, << >>, <<"a">>},
          start \in {Undefined, <<"0">>, <<"1">>, <<"x">>},
          end \in {Undefined, <<"0">>, <<"1">>},
          recent \in BOOLEAN :
        /\ OptionsOf(metricType, metric, accounts)
        /\ commander = MakeCommander(host, port, accessKey, secretKey, metric,
                                     buckets, accounts, start, end, FALSE, recent, FALSE)
    /\ server = [statusCode |-> 403, chunks |-> << ACCESS_DENIED >>]
    /\ InitRun
    /\ InitPushVars

\* the required options present; resources and time range of every kind
InitReq ==
    /\ metricType \in {BUCKETS, Undefined}
    /\ \E metric \in {Undefined, BUCKETS, ACCOUNTS},
          buckets \in ResVals, accounts \in ResVals,
          start \in StartVals, end \in EndVals, recent \in BOOLEAN :
        /\ OptionsOf(metricType, metric, accounts)
        /\ metricType = Undefined => metric # Undefined
        /\ metric = BUCKETS => accounts = Undefined
        /\ metric = ACCOUNTS => buckets = Undefined
        /\ commander = MakeCommander(HOST, PORT, ACCESS_KEY, SECRET_KEY, metric,
                                     buckets, accounts, start, end, FALSE, recent, FALSE)
    /\ server = [statusCode |-> 200, chunks |-> << NULL_TEXT >>]
    /\ InitRun
    /\ InitPushVars

\* a valid request of each binary (verbose over http, recent over https);
\* status codes and bodies of every kind
InitResp ==
    /\ \/ /\ metricType = BUCKETS
          /\ commander = MakeCommander(HOST, PORT, ACCESS_KEY, SECRET_KEY, Undefined,
                                       B1_B2, Undefined, T100, T200, TRUE, FALSE, FALSE)
       \/ /\ metricType = Undefined
          /\ commander = MakeCommander(HOST, PORT, ACCESS_KEY, SECRET_KEY, ACCOUNTS,
                                       Undefined, <<"a">>, Undefined, Undefined,
                                       FALSE, TRUE, TRUE)
    /\ server \in Responses
    /\ InitRun
    /\ InitPushVars

Init == InitArgs \/ InitReq \/ InitResp

\* every run of the listMetrics binaries
Spec == Init /\ [][Next]_vars

---------------------------------------------------------------------------
(* Calls of pushMetric in the S3 server.                                   *)

PushActions == {"putObject", "deleteObject"}
PushUids == {"uid1", "uid1:uid2"}
AuthInfos == {SUndef, [t |-> "null", v |-> ""], [t |-> "object", v |-> "ACCT123"]}
BucketNames == {SUndef, [t |-> "string", v |-> "b1"]}
Sizes == {NUndef, [t |-> "number", v |-> 0], [t |-> "number", v |-> 7]}
NewSizes == {NUndef, [t |-> "number", v |-> 7]}
OldSizes == {NUndef, [t |-> "null", v |-> 0], [t |-> "number", v |-> 0]}
Counts == {NUndef, [t |-> "number", v |-> 1]}
MetricObjs == [authInfo : AuthInfos, bucket : BucketNames, byteLength : Sizes,
               newByteLength : NewSizes, oldByteLength : OldSizes,
               numberOfObjects : Counts]
PushResults == {"undefined", "result"}

InitPush ==
    /\ metricType = Undefined
    /\ commander = MakeCommander(Undefined, Undefined, Undefined, Undefined, Undefined,
                                 Undefined, Undefined, Undefined, Undefined,
                                 FALSE, FALSE, FALSE)
    /\ server = [statusCode |-> 200, chunks |-> << >>]
    /\ InitRun
    /\ InitPushVars

NextPush ==
    \E action \in PushActions, uids \in PushUids, metricObj \in MetricObjs,
       result \in PushResults :
        PushMetric(action, uids, metricObj, result)

SpecPush == InitPush /\ [][NextPush]_vars

---------------------------------------------------------------------------
(* Properties.                                                             *)

\* the text the server sends as the body of its response
ServerText == Join(server.chunks, << >>)
\* the process ended in the 'end' handler of the response
EndHandled == pc = "exited" /\ requests # << >>
\* the text given to request.write (the first such call)
WrittenBody(req) ==
    req.calls[CHOOSE i \in 1..Len(req.calls) : req.calls[i].op = "write"].data
\* the positions of the members of object `obj` whose key is `key`
MembersAt(obj, key) == {i \in 1..Len(obj.val) : obj.val[i].key = key}
\* the number of commas of a string
Commas(str) == Cardinality({i \in 1..Len(str) : str[i] = ","})
\* the options other than --metric are all present and valid
OtherOptionsValid ==
    /\ commander.host = HOST /\ commander.port = PORT
    /\ commander.accessKey = ACCESS_KEY /\ commander.secretKey = SECRET_KEY
    /\ commander.buckets = <<"a">> /\ commander.accounts = <<"a">>
    /\ commander.start = <<"1">> /\ commander.end = <<"1">>

(* C1: when the response of a sent request has ended and its body parses   *)
(* as JSON, the process exits 0 having written exactly the body printed    *)
(* with indent 2 and a newline if the status code is in [200, 300);        *)
(* otherwise it exits 1, has logged an error with the status code and the  *)
(* parsed body, and has written nothing to stdout.                         *)
C1_StatusDecidesExit ==
    (EndHandled /\ JSONParse(ServerText).ok) =>
        LET parsed == JSONParse(ServerText).val
            ok == server.statusCode \in 200..299
            failures == {i \in 1..Len(logs) :
                            /\ logs[i].level = "error"
                            /\ logs[i].message = "request failed with HTTP Status "}
        IN /\ ok => /\ exit = "exit0" /\ ExitCode = 0
                    /\ stdout = << JSONStringify(parsed, 2), NEWLINE >>
                    /\ failures = {}
           /\ ~ok => /\ exit = "exit1" /\ ExitCode = 1
                     /\ stdout = << >>
                     /\ Cardinality(failures) = 1
                     /\ \A i \in failures :
                           /\ logs[i].data.statusCode = server.statusCode
                           /\ JSONStringify(logs[i].data.body, 0)
                                 = JSONStringify(parsed, 0)
           /\ (ok /\ server.chunks = << <<"[">>, <<"1">>, <<"]">> >>)
                 => stdout[1] = <<"[", "\n", " ", " ", "1", "\n", "]">>
           /\ (server.statusCode = 403 /\ server.chunks = << ACCESS_DENIED >>)
                 => \E i \in failures :
                       /\ logs[i].data.statusCode = 403
                       /\ JSONStringify(logs[i].data.body, 0) = ACCESS_DENIED

\* a response of status 299 whose body arrived in three chunks was printed
C1_Witness ==
    /\ EndHandled /\ exit = "exit0"
    /\ server.statusCode = 299
    /\ server.chunks = << <<"[">>, <<"1">>, <<"]">> >>

(* C2: in generic mode (metricType other than 'buckets'), when --metric is *)
(* neither 'buckets' nor 'accounts' (absent included), the run ends with   *)
(* exit code 1 and no request is ever made, whatever the other options.    *)
C2_BadMetricExits ==
    (metricType # BUCKETS /\ commander.metric # BUCKETS /\ commander.metric # ACCOUNTS)
        => /\ requests = << >> /\ listCalls = << >>
           /\ pc \in {"start", "exited"}
           /\ pc = "exited" => (exit = "exit1" /\ ExitCode = 1)

\* a run with --metric b and every other option valid has exited
C2_Witness ==
    /\ metricType = Undefined /\ commander.metric = <<"b">>
    /\ OtherOptionsValid /\ ~commander.recent
    /\ pc = "exited"

\* the metric of the run is valid
C3_ValidMetric ==
    metricType = BUCKETS \/ commander.metric = BUCKETS \/ commander.metric = ACCOUNTS
\* one of the options the run needs is absent or empty, or its start or its
\* given (non-empty) end is no non-zero integer while --recent is not set
C3_BadOptions ==
    \/ ~Truthy(commander.host) \/ ~Truthy(commander.port)
    \/ ~Truthy(commander.accessKey) \/ ~Truthy(commander.secretKey)
    \/ (metricType = BUCKETS \/ commander.metric = BUCKETS) /\ ~Truthy(commander.buckets)
    \/ (metricType # BUCKETS /\ commander.metric = ACCOUNTS) /\ ~Truthy(commander.accounts)
    \/ /\ ~commander.recent
       /\ \/ ~Truthy(commander.start)
          \/ ParseInt(commander.start).nan
          \/ ParseInt(commander.start).val = 0
          \/ commander.start \in {<<"0">>, <<"x">>, <<"-">>, <<"-", "0">>, <<"0", "0">>}
          \/ /\ Truthy(commander.end)
             /\ \/ ParseInt(commander.end).nan
                \/ ParseInt(commander.end).val = 0
                \/ commander.end \in {<<"0">>, <<"-">>, <<"-", "0">>, <<"0", "0">>}

(* C3: with a valid metric, when host, port, accessKey, secretKey or the   *)
(* resource option of the metric is absent or empty, or, --recent not      *)
(* being set, start is absent or is no non-zero integer or an end that was *)
(* given (a non-empty value: the code's `if (end)`) is no non-zero         *)
(* integer (0 included), the run ends with exit code 1 and no request is   *)
(* ever created, signed or sent.  A value is an integer when               *)
(* Number.parseInt(value, 10) reads one from its start: "1-" reads as 1.   *)
C3_BadOptionsExit ==
    (C3_ValidMetric /\ C3_BadOptions)
        => /\ requests = << >> /\ listCalls = << >>
           /\ pc \in {"start", "exited"}
           /\ pc = "exited" => (exit = "exit1" /\ ExitCode = 1)

\* a run whose only fault is --end 0 has exited
C3_Witness ==
    /\ C3_ValidMetric /\ pc = "exited"
    /\ commander.host = HOST /\ commander.port = PORT
    /\ commander.accessKey = ACCESS_KEY /\ commander.secretKey = SECRET_KEY
    /\ Truthy(ResourceOption(Metric))
    /\ ~commander.recent /\ commander.start = <<"1">> /\ commander.end = <<"0">>

(* C4: the body of a request holds a timeRange key if and only if --recent *)
(* is not set: never with --recent, whatever --start and --end are; and    *)
(* without it timeRange is [start] when no end was given and [start, end]  *)
(* when one was, the numbers being the parsed integers.                    *)
C4_TimeRangeIffNotRecent ==
    requests # << >> =>
        LET body == JSONParse(WrittenBody(requests[1]))
            at == MembersAt(body.val, TIMERANGE)
            numStart == ParseInt(commander.start).val
            numEnd == ParseInt(commander.end).val
        IN /\ body.ok /\ body.val.type = "object"
           /\ commander.recent => at = {}
           /\ ~commander.recent =>
                /\ Cardinality(at) = 1
                /\ \A i \in at :
                     LET range == body.val.val[i].value
                     IN /\ range.type = "array"
                        /\ \A j \in 1..Len(range.val) : range.val[j].type = "number"
                        /\ ~Truthy(commander.end) =>
                              /\ Len(range.val) = 1
                              /\ range.val[1].val = numStart
                        /\ Truthy(commander.end) =>
                              /\ Len(range.val) = 2
                              /\ range.val[1].val = numStart
                              /\ range.val[2].val = numEnd
                        /\ (commander.start = T100 /\ commander.end = T200) =>
                              JSONStringify(range, 0)
                                 = <<"[", "1", "0", "0", ",", "2", "0", "0", "]">>
                        /\ (commander.start = <<"-", "1">> /\ ~Truthy(commander.end)) =>
                              JSONStringify(range, 0) = <<"[", "-", "1", "]">>

\* a recent listing was requested although --start is not a number
C4_Witness ==
    /\ requests # << >> /\ commander.recent
    /\ commander.start = <<"-">> /\ commander.end = <<"0">>

\* the invariant of the data model on one call of _listMetrics
C5_Invariant(a) ==
    /\ a.metricType # << >>
    /\ a.recent => a.timeRange = << >>
    /\ ~a.recent =>
          /\ Len(a.timeRange) \in {1, 2}
          /\ Len(a.timeRange) = 2 => a.timeRange[1] <= a.timeRange[2]

(* C5 as stated: every call of _listMetrics has a non-empty resource list, *)
(* an empty timeRange when recent, and otherwise a timeRange of 1 or 2     *)
(* entries with start <= end when both are there.                          *)
C5_Claim == \A i \in 1..Len(listCalls) : C5_Invariant(listCalls[i])

(* C5 amended: every call of _listMetrics has a non-empty resource list,   *)
(* an empty timeRange when recent, and otherwise a timeRange of 1 or 2     *)
(* non-zero integers (2 exactly when an end was given); their order is not *)
(* checked, so start may be greater than end.                              *)
C5_Amended ==
    \A i \in 1..Len(listCalls) :
        LET a == listCalls[i]
        IN /\ a.metricType # << >>
           /\ a.recent = commander.recent
           /\ a.recent => a.timeRange = << >>
           /\ ~a.recent =>
                 /\ Len(a.timeRange) = IF Truthy(commander.end) THEN 2 ELSE 1
                 /\ \A j \in 1..Len(a.timeRange) : a.timeRange[j] # 0

\* _listMetrics was called with a start greater than the end
C5_Witness ==
    /\ listCalls # << >>
    /\ Len(listCalls[1].timeRange) = 2
    /\ listCalls[1].timeRange[1] > listCalls[1].timeRange[2]

\* the text of a list of resources: ["r1","r2"]
C6_ResourcesText(resources) ==
    <<"[">> \o Join([i \in 1..Len(resources) |-> <<"\"">> \o resources[i] \o <<"\"">>],
                    <<",">>) \o <<"]">>
\* the text of a time range: [1,2]
C6_RangeText(timeRange) ==
    <<"[">> \o Join([i \in 1..Len(timeRange) |-> IntToStr(timeRange[i])], <<",">>)
    \o <<"]">>
\* the request of the example: buckets b1 and b2 from 100 to 200
C6_Example(a) ==
    /\ a.metric = BUCKETS /\ a.metricType = << <<"b", "1">>, <<"b", "2">> >>
    /\ ~a.recent /\ a.timeRange = <<100, 200>>

(* C6 as stated: the body of a non-recent request has the metric kind and  *)
(* then timeRange as its keys, as in                                       *)
(* {"buckets":["b1","b2"],"timeRange":[100,200]}.                          *)
C6_Claim ==
    (requests # << >> /\ ~commander.recent) =>
        LET a == listCalls[1]
        IN WrittenBody(requests[1])
              = <<"{", "\"">> \o a.metric \o <<"\"", ":">>
                \o C6_ResourcesText(a.metricType)
                \o <<",", "\"">> \o TIMERANGE \o <<"\"", ":">>
                \o C6_RangeText(a.timeRange) \o <<"}">>

(* C6 amended: the body of a non-recent request has exactly two keys,      *)
(* timeRange first and then the metric kind mapped to the resource list;   *)
(* the example serializes to                                               *)
(* {"timeRange":[100,200],"buckets":["b1","b2"]}.                          *)
C6_Amended ==
    (requests # << >> /\ ~commander.recent) =>
        LET a == listCalls[1]
        IN /\ WrittenBody(requests[1])
                = <<"{", "\"">> \o TIMERANGE \o <<"\"", ":">>
                  \o C6_RangeText(a.timeRange)
                  \o <<",", "\"">> \o a.metric \o <<"\"", ":">>
                  \o C6_ResourcesText(a.metricType) \o <<"}">>
           /\ C6_Example(a) =>
                 WrittenBody(requests[1])
                    = <<"{", "\"", "t", "i", "m", "e", "R", "a", "n", "g", "e", "\"", ":",
                        "[", "1", "0", "0", ",", "2", "0", "0", "]", ",",
                        "\"", "b", "u", "c", "k", "e", "t", "s", "\"", ":",
                        "[", "\"", "b", "1", "\"", ",", "\"", "b", "2", "\"", "]", "}">>

\* the request of the example was written
C6_Witness == requests # << >> /\ C6_Example(listCalls[1])

(* C7 as stated: when a sent request is answered with status 204 and an    *)
(* empty body, the process exits with code 0 and has written the parsed    *)
(* output (null or its like) to stdout.                                    *)
C7_Claim ==
    (EndHandled /\ server.statusCode = 204 /\ ServerText = << >>)
        => (ExitCode = 0 /\ stdout # << >>)

(* C8: the resource list of a request is the value of the resource option  *)
(* split on commas: one more segment than commas, in the original order,   *)
(* empty segments kept.                                                    *)
C8_ResourcesSplit ==
    requests # << >> =>
        LET value == ResourceOption(Metric)
            resources == listCalls[1].metricType
            body == JSONParse(WrittenBody(requests[1]))
            at == MembersAt(body.val, listCalls[1].metric)
        IN /\ Len(resources) = Commas(value) + 1
           /\ Join(resources, <<",">>) = value
           /\ \A i \in 1..Len(resources) : Commas(resources[i]) = 0
           /\ value = <<",", "a">> => resources = << << >>, <<"a">> >>
           /\ value = <<",", ",">> => resources = << << >>, << >>, << >> >>
           /\ body.ok /\ Cardinality(at) = 1
           /\ \A m \in at :
                 LET list == body.val.val[m].value
                 IN /\ list.type = "array"
                    /\ Len(list.val) = Len(resources)
                    /\ \A i \in 1..Len(resources) :
                          /\ list.val[i].type = "string"
                          /\ list.val[i].val = resources[i]

\* a request was made for a resource option with an empty segment
C8_Witness ==
    /\ requests # << >> /\ ResourceOption(Metric) = <<",", "a">>
    /\ metricType = Undefined /\ commander.metric = ACCOUNTS

(* C9: each call of pushMetric makes exactly one call of utapi.pushMetric, *)
(* with the action, the serialized uids of the log and a payload whose     *)
(* accountId is the canonical id of authInfo when there is one and is      *)
(* undefined otherwise, and whose other five fields are those of           *)
(* metricObj, an absent one staying undefined; it returns what that call   *)
(* returns.                                                                *)
C9_PushOnce ==
    /\ utapiCalls = pushCalls
    /\ pushCalls > 0 =>
          LET m == pushIn.metricObj
              p == lastPush.params
          IN /\ lastPush.action = pushIn.action
             /\ lastPush.reqUids = pushIn.uids
             /\ m.authInfo.t = "object" =>
                   (p.accountId.t = "string" /\ p.accountId.v = m.authInfo.v)
             /\ m.authInfo.t # "object" => p.accountId.t = "undefined"
             /\ p.bucket = m.bucket
             /\ p.byteLength = m.byteLength
             /\ p.newByteLength = m.newByteLength
             /\ p.oldByteLength = m.oldByteLength
             /\ p.numberOfObjects = m.numberOfObjects
             /\ m.byteLength.t = "undefined" => p.byteLength.t = "undefined"
             /\ pushReturn = utapiResult

\* a metric was pushed for ACCT123 without a byteLength
C9_Witness ==
    /\ pushCalls = 1
    /\ pushIn.metricObj.authInfo = [t |-> "object", v |-> "ACCT123"]
    /\ pushIn.metricObj.byteLength.t = "undefined"
    /\ lastPush.params.accountId.v = "ACCT123"

(* C10: a run makes at most one request, and exactly one once validation   *)
(* has passed; that request is signed once (empty payload, service 's3',   *)
(* the keys given), then written once, then ended once, over http or https  *)
(* as --ssl says; no other request is made whatever the response; and      *)
(* process.exit is called after a request only once its response ended.    *)
C10_OneRequest ==
    /\ Len(requests) <= 1 /\ Len(listCalls) = Len(requests)
    /\ pc # "start" =>
          \/ Len(requests) = 1
          \/ /\ requests = << >> /\ pc = "exited" /\ exit = "exit1"
             /\ response = NoResponse
    /\ (pc # "start" /\ ValidationError = "") => Len(requests) = 1
    /\ requests # << >> =>
          LET calls == requests[1].calls
          IN /\ [i \in 1..Len(calls) |-> calls[i].op]
                   = <<"generateV4Headers", "write", "end">>
             /\ calls[1].data = << >> /\ calls[1].service = "s3"
             /\ calls[1].accessKey = commander.accessKey
             /\ calls[1].secretKey = commander.secretKey
             /\ requests[1].transport = IF commander.ssl THEN "https" ELSE "http"
             /\ exit # "running" => (response.ended /\ pc = "exited")
             /\ exit \in {"exit0", "exit1"} => response.nread = Len(server.chunks)

\* a request failed with status 403 and the run ended without another one
C10_Witness ==
    /\ EndHandled /\ exit = "exit1" /\ server.statusCode = 403
    /\ Len(requests) = 1 /\ commander.ssl

=============================================================================
